---- MODULE Spec2Model ----
(***************************************************************************)
(* Model of app.py: the Ayu-Chain health assistant backend.                *)
(*                                                                         *)
(*   - load_pdf_record() runs once at import time and fills the in-memory  *)
(*     dict patient_records from the pages of one PDF;                     *)
(*   - get_ai_response() looks a record up, truncates it, formats the      *)
(*     prompt, posts it to the Gemini endpoint and parses the reply;       *)
(*   - home(), ask_question() and analyze_health() are the Flask routes.   *)
(*                                                                         *)
(* A Python str is modelled as a sequence of pieces [c |-> s, n |-> k]:    *)
(* the string s repeated k times.  The run-length form keeps the real      *)
(* 5000-character threshold of the truncation policy within reach of the   *)
(* model checker.  A str is kept in normal form: no empty piece and no two *)
(* adjacent pieces with the same c.                                        *)
(***************************************************************************)
EXTENDS Integers, Sequences, FiniteSets, TLC

VARIABLES
    API_KEY,          \* os.getenv('GEMINI_API_KEY'): None, "" or a key
    pdf_doc,          \* the file sample-data.txt.pdf as PdfReader sees it
    patient_records,  \* the module-level dict patient_records
    main_pc,          \* position of the module's top-level code
    text,             \* local `text` of load_pdf_record
    page_idx,         \* position of the `for page in reader.pages` loop
    threads,          \* one frame per request-handling thread of the server
    last_response     \* the HTTP response most recently sent to a client

vars == <<API_KEY, pdf_doc, patient_records, main_pc, text, page_idx,
          threads, last_response>>

(***************************************************************************)
(* Bounds of the model.                                                    *)
(***************************************************************************)
MaxPages == 2         \* pages of the PDF
Overshoot == 2        \* how far past the threshold the probed records go

(***************************************************************************)
(* Python str                                                              *)
(***************************************************************************)
Lit(s) == IF s = "" THEN <<>> ELSE <<[c |-> s, n |-> 1]>>

Rep(ch, k) == IF k = 0 THEN <<>> ELSE <<[c |-> ch, n |-> k]>>

PieceLen(p) == Len(p.c) * p.n

RECURSIVE Length(_)
Length(s) == IF s = <<>> THEN 0 ELSE PieceLen(s[1]) + Length(Tail(s))

\* a + b
Concat(a, b) ==
    IF a = <<>> THEN b
    ELSE IF b = <<>> THEN a
    ELSE IF a[Len(a)].c = b[1].c
         THEN SubSeq(a, 1, Len(a) - 1)
                \o <<[c |-> b[1].c, n |-> a[Len(a)].n + b[1].n]>>
                \o Tail(b)
         ELSE a \o b

\* the first k characters of one piece, 0 < k < PieceLen(p)
PieceSlice(p, k) ==
    LET whole == k \div Len(p.c)
        rest  == k % Len(p.c)
    IN  (IF whole > 0 THEN <<[c |-> p.c, n |-> whole]>> ELSE <<>>)
          \o (IF rest > 0 THEN <<[c |-> SubSeq(p.c, 1, rest), n |-> 1]>>
                          ELSE <<>>)

\* s[:k]
RECURSIVE Slice(_, _)
Slice(s, k) ==
    IF s = <<>> \/ k <= 0 THEN <<>>
    ELSE IF PieceLen(s[1]) <= k
         THEN <<s[1]>> \o Slice(Tail(s), k - PieceLen(s[1]))
         ELSE PieceSlice(s[1], k)

\* s[i], 0 <= i < len(s), as a one-character TLA+ string
RECURSIVE CharAt(_, _)
CharAt(s, i) ==
    IF i < PieceLen(s[1])
    THEN LET j == (i % Len(s[1].c)) + 1 IN SubSeq(s[1].c, j, j)
    ELSE CharAt(Tail(s), i - PieceLen(s[1]))

(***************************************************************************)
(* Program constants                                                       *)
(***************************************************************************)
MAX_RECORD_CHARS == 5000

TRUNCATION_NOTE ==
    Lit("\n\n[Note: Record truncated for AI analysis due to size limit.]")

NO_RECORDS == Lit("No health records found.")

DEFAULT_PATIENT == "test_patient"

(***************************************************************************)
(* load_pdf_record                                                         *)
(***************************************************************************)
PageTexts == { Lit("Name: A. Patient\nBP: 120/80\n"),
               Rep("x", MAX_RECORD_CHARS) }

PageOutcomes == [ok : {TRUE}, text : PageTexts]
                  \cup {[ok |-> FALSE, text |-> <<>>]}

RECURSIVE SeqsUpTo(_, _)
SeqsUpTo(S, k) ==
    IF k = 0 THEN {<<>>}
    ELSE LET shorter == SeqsUpTo(S, k - 1)
         IN  shorter \cup {Append(s, e) : s \in shorter, e \in S}

Documents == [opens : {TRUE}, pages : SeqsUpTo(PageOutcomes, MaxPages)]
               \cup {[opens |-> FALSE, pages |-> <<>>]}

\* variant of ExtractStep: the page text is put in front of the accumulator
ExtractStepPrepend(acc, page) == Concat(page.text, acc)

\* text += page.extract_text()
ExtractStep(acc, page) == Concat(acc, page.text)

\* patient_records['test_patient'] = text
StoreRecord(records, value) ==
    [k \in DOMAIN records \cup {DEFAULT_PATIENT} |->
        IF k = DEFAULT_PATIENT THEN value ELSE records[k]]

\* reader = PdfReader('sample-data.txt.pdf'); text = ""
OpenPdf ==
    /\ main_pc = "open"
    /\ pdf_doc.opens
    /\ main_pc' = "pages"
    /\ text' = <<>>
    /\ page_idx' = 1
    /\ UNCHANGED <<API_KEY, pdf_doc, patient_records, threads, last_response>>

\* one iteration of the loop whose extract_text() returns
ExtractPage ==
    /\ main_pc = "pages"
    /\ page_idx <= Len(pdf_doc.pages)
    /\ pdf_doc.pages[page_idx].ok
    /\ text' = ExtractStep(text, pdf_doc.pages[page_idx])
    /\ page_idx' = page_idx + 1
    /\ UNCHANGED <<API_KEY, pdf_doc, patient_records, main_pc, threads,
                   last_response>>

\* the loop is over: store the text, return, and the import completes
StorePdf ==
    /\ main_pc = "pages"
    /\ page_idx > Len(pdf_doc.pages)
    /\ patient_records' = StoreRecord(patient_records, text)
    /\ main_pc' = "serving"
    /\ text' = <<>>
    /\ page_idx' = 0
    /\ UNCHANGED <<API_KEY, pdf_doc, threads, last_response>>

\* PdfReader(...) or extract_text() raises: the except clause prints and
\* load_pdf_record returns
LoadFailed ==
    /\ \/ main_pc = "open" /\ ~pdf_doc.opens
       \/ /\ main_pc = "pages"
          /\ page_idx <= Len(pdf_doc.pages)
          /\ ~pdf_doc.pages[page_idx].ok
    /\ main_pc' = "serving"
    /\ text' = <<>>
    /\ page_idx' = 0
    /\ UNCHANGED <<API_KEY, pdf_doc, patient_records, threads, last_response>>

(***************************************************************************)
(* Python values and JSON documents                                        *)
(***************************************************************************)
\* an optional string: None, or a string s
PyNone(empty) == [none |-> TRUE, s |-> empty]

PyStr(s) == [none |-> FALSE, s |-> s]

\* `not v` for an optional string: None and the empty string are falsy
Falsy(v) == v.none \/ Len(v.s) = 0

\* an f-string: the concatenation of its fragments
RECURSIVE Format(_)
Format(frags) ==
    IF frags = <<>> THEN <<>> ELSE Concat(frags[1], Format(Tail(frags)))

\* json.dumps(data, indent=2): an injective rendering of the document
Dumps(data) == Lit(ToString(data))

(***************************************************************************)
(* What the Gemini endpoint can answer                                     *)
(***************************************************************************)
ANSWER_TEXT == Lit("Your blood pressure is normal.")

LATER_TEXT == Lit("text of a later part or candidate")

ERROR_MESSAGE == Lit("bad request")

PartNoText == [isDict |-> TRUE, hasText |-> FALSE, text |-> <<>>]

PartText(x) == [isDict |-> TRUE, hasText |-> TRUE, text |-> x]

PartNotDict == [isDict |-> FALSE, hasText |-> FALSE, text |-> <<>>]

PartLists == { <<>>, <<PartNoText>>, <<PartNotDict>>,
               <<PartText(ANSWER_TEXT)>>, <<PartText(<<>>)>>,
               <<PartNoText, PartText(LATER_TEXT)>>,
               <<PartText(ANSWER_TEXT), PartText(LATER_TEXT)>> }

Contents ==
    {[kind |-> "missing", hasParts |-> FALSE, parts |-> <<>>],
     [kind |-> "null", hasParts |-> FALSE, parts |-> <<>>],
     [kind |-> "dict", hasParts |-> FALSE, parts |-> <<>>]}
      \cup [kind : {"dict"}, hasParts : {TRUE}, parts : PartLists]

FinishReasons == {PyNone(""), PyStr("SAFETY")}

Candidates == [content : Contents, finishReason : FinishReasons]

LaterCandidate ==
    [content |-> [kind |-> "dict", hasParts |-> TRUE,
                  parts |-> <<PartText(LATER_TEXT)>>],
     finishReason |-> PyStr("STOP")]

CandidateLists ==
    {<<>>} \cup {<<c>> : c \in Candidates}
           \cup {<<c, LaterCandidate>> : c \in Candidates}

\* the key 'error' of the body: absent, or an object with or without 'message'
ErrorFields == {[has |-> FALSE, message |-> PyNone(<<>>)],
                [has |-> TRUE, message |-> PyNone(<<>>)],
                [has |-> TRUE, message |-> PyStr(ERROR_MESSAGE)]}

NoErrorField == [has |-> FALSE, message |-> PyNone(<<>>)]

ErrorField(m) == [has |-> TRUE, message |-> PyStr(m)]

DataObjects ==
    [hasCandidates : {TRUE}, candidates : CandidateLists,
     error : {NoErrorField}]
      \cup {[hasCandidates |-> TRUE,
             candidates |-> <<[content |-> [kind |-> "dict", hasParts |-> TRUE,
                                            parts |-> <<PartText(ANSWER_TEXT)>>],
                               finishReason |-> PyStr("SAFETY")]>>,
             error |-> ErrorField(ERROR_MESSAGE)]}
      \cup [hasCandidates : {FALSE}, candidates : {<<>>}, error : ErrorFields]

NoData == [hasCandidates |-> FALSE, candidates |-> <<>>, error |-> NoErrorField]

\* a reply of requests.post: an exception, or a response with a status code
\* and a body that is a JSON object, another JSON value, or not JSON
Exceptions == {"ConnectionError", "Timeout"}

ErrorBodies == {d \in DataObjects : ~d.hasCandidates}

AllReplies ==
    [kind : {"exception"}, exc : Exceptions, status : {0},
     body : {"none"}, data : {NoData}]
      \cup [kind : {"response"}, exc : {""}, status : {200, 201},
            body : {"object"}, data : DataObjects]
      \cup [kind : {"response"}, exc : {""}, status : {400, 503},
            body : {"object"}, data : ErrorBodies]
      \cup [kind : {"response"}, exc : {""}, status : {200, 503},
            body : {"array", "notjson"}, data : {NoData}]

\* one candidate list for each way the first candidate can look
PlainCandidateLists ==
    {<<>>} \cup {<<c>> : c \in {d \in Candidates :
                                   /\ ~d.finishReason.none
                                   /\ Len(d.content.parts) <= 1
                                   /\ d.content.kind = "dict" => d.content.hasParts}}

\* the replies the whole-server specification draws from
Replies ==
    {r \in AllReplies :
        /\ r.exc # "Timeout"
        /\ r.status \notin {201, 503}
        /\ r.data.hasCandidates => /\ r.data.candidates \in PlainCandidateLists
                                   /\ ~r.data.error.has
        /\ ~r.data.hasCandidates /\ r.body = "object"
              => r.data.error = ErrorField(ERROR_MESSAGE)}

NoReply == [kind |-> "none", exc |-> "", status |-> 0, body |-> "none",
            data |-> NoData]

(***************************************************************************)
(* get_ai_response                                                         *)
(***************************************************************************)
\* variant of DictGet: an absent key yields the empty string
DictGetEmptyDefault(records, key, default) ==
    IF key \in DOMAIN records THEN records[key] ELSE <<>>

\* patient_records.get(patient_id, default)
DictGet(records, key, default) ==
    IF key \in DOMAIN records THEN records[key] ELSE default

\* variant of Truncate: a record of exactly the limit is truncated too
TruncateAtLimit(health_records) ==
    IF Length(health_records) >= MAX_RECORD_CHARS
    THEN Concat(Slice(health_records, MAX_RECORD_CHARS), TRUNCATION_NOTE)
    ELSE health_records

\* the truncation of lines 61-62
Truncate(health_records) ==
    IF Length(health_records) > MAX_RECORD_CHARS
    THEN Concat(Slice(health_records, MAX_RECORD_CHARS), TRUNCATION_NOTE)
    ELSE health_records

RECORDS_HEADER == Lit("\nPATIENT HEALTH RECORDS:\n")

QUESTION_HEADER == Lit("\n\nPATIENT QUESTION:\n")

MESSAGE_FOOTER ==
    Lit("\n\nPlease analyze the records and answer the patient's question accurately and clearly.\n")

\* the f-string user_message
UserMessage(health_records, user_question) ==
    Format(<<RECORDS_HEADER, health_records, QUESTION_HEADER, user_question,
             MESSAGE_FOOTER>>)

\* lines 57-104: everything get_ai_response computes before the try block
Prepare(records, user_question, patient_id) ==
    LET health_records == Truncate(DictGet(records, patient_id, NO_RECORDS))
    IN  [health_records |-> health_records,
         user_message |-> UserMessage(health_records, user_question)]

MISSING_KEY_ERROR == Lit("Error: Missing GEMINI_API_KEY in your .env file.")

\* variant of KeyMissing: `if API_KEY is None`
KeyMissingNoneOnly(key) == key.none

\* `if not API_KEY`
KeyMissing(key) == Falsy(key)

\* response.raise_for_status() raises HTTPError
RaisesForStatus(status) == 400 <= status /\ status < 600

\* str() of the HTTPError raised by raise_for_status
HttpErrorText(status) ==
    IF status < 500 THEN Lit(ToString(status) \o " Client Error")
                    ELSE Lit(ToString(status) \o " Server Error")

ConnectError(detail) == Format(<<Lit("Error connecting to Gemini API: "), detail>>)

OtherError(detail) == Format(<<Lit("Error getting AI response: "), detail>>)

DEFAULT_ERROR_MESSAGE == Lit("Unknown error or blocked content.")

\* variant of FinishReason: candidate.get("finishReason", "")
FinishReasonNoDefault(candidate) == Lit(candidate.finishReason.s)

\* candidate.get("finishReason", "Unknown"), formatted
FinishReason(candidate) ==
    IF candidate.finishReason.none THEN Lit("Unknown")
    ELSE Lit(candidate.finishReason.s)

\* content.get('parts', []) of candidate.get('content', {})
PartsOf(candidate) ==
    IF candidate.content.kind = "dict" /\ candidate.content.hasParts
    THEN candidate.content.parts ELSE <<>>

\* variant of ParseData: a body with an 'error' key is reported as an error
\* before its candidates are looked at
ParseDataErrorFirst(data, status) ==
    IF data.error.has \/ ~(data.hasCandidates /\ data.candidates # <<>>)
    THEN Format(<<Lit("Gemini API Error: "),
                  IF data.error.has /\ ~data.error.message.none
                  THEN data.error.message.s ELSE DEFAULT_ERROR_MESSAGE>>)
    ELSE LET candidate == data.candidates[1]
             parts == PartsOf(candidate)
         IN  IF candidate.content.kind = "null"
             THEN OtherError(Lit("'NoneType' object has no attribute 'get'"))
             ELSE IF parts # <<>> /\ parts[1].isDict /\ parts[1].hasText
             THEN parts[1].text
             ELSE Format(<<Lit("No valid text found in Gemini response. Finish reason: "),
                           FinishReason(candidate), Lit(". Response: "),
                           Dumps(data)>>)

\* lines 125-140: the value returned for a body that is a JSON object
ParseData(data, status) ==
    IF data.hasCandidates /\ data.candidates # <<>>
    THEN LET candidate == data.candidates[1]
             parts == PartsOf(candidate)
         IN  IF candidate.content.kind = "null"
             THEN OtherError(Lit("'NoneType' object has no attribute 'get'"))
             ELSE IF parts # <<>> /\ parts[1].isDict /\ parts[1].hasText
             THEN parts[1].text
             ELSE Format(<<Lit("No valid text found in Gemini response. Finish reason: "),
                           FinishReason(candidate), Lit(". Response: "),
                           Dumps(data)>>)
    ELSE LET error_message ==
                 IF data.error.has /\ ~data.error.message.none
                 THEN data.error.message.s ELSE DEFAULT_ERROR_MESSAGE
         IN  IF status = 400
             THEN Format(<<Lit("Gemini API Error (400): "), error_message,
                           Lit(". Full details: "), Dumps(data)>>)
             ELSE Format(<<Lit("Gemini API Error: "), error_message>>)

\* lines 111-146: the value returned once requests.post has come back.
\* jsonErrorIsRequestException: whether the installed requests raises its own
\* JSONDecodeError (a RequestException) or a plain ValueError from .json()
GeminiResult(reply, jsonErrorIsRequestException) ==
    IF reply.kind = "exception" THEN ConnectError(Lit(reply.exc))
    ELSE IF RaisesForStatus(reply.status)
         THEN ConnectError(HttpErrorText(reply.status))
    ELSE IF reply.body = "notjson"
         THEN IF jsonErrorIsRequestException
              THEN ConnectError(Lit("Expecting value: line 1 column 1 (char 0)"))
              ELSE OtherError(Lit("Expecting value: line 1 column 1 (char 0)"))
    ELSE IF reply.body = "array"
         THEN OtherError(Lit("'list' object has no attribute 'get'"))
    ELSE ParseData(reply.data, reply.status)

(***************************************************************************)
(* The Flask routes                                                        *)
(***************************************************************************)
Threads == {"t1", "t2"}

UNKNOWN_PATIENT == "ghost"

QuestionFields == {[kind |-> "missing", s |-> <<>>],
                   [kind |-> "null", s |-> <<>>],
                   [kind |-> "str", s |-> <<>>],
                   [kind |-> "str", s |-> Lit("Am I healthy?")]}

PatientIdFields == {[has |-> FALSE, s |-> ""],
                    [has |-> TRUE, s |-> DEFAULT_PATIENT],
                    [has |-> TRUE, s |-> UNKNOWN_PATIENT]}

NoBody == [kind |-> "none", question |-> [kind |-> "missing", s |-> <<>>],
           patient_id |-> [has |-> FALSE, s |-> ""]]

\* request bodies: not JSON at all, JSON that is not an object, or an object
Bodies ==
    [kind : {"object"}, question : QuestionFields, patient_id : PatientIdFields]
      \cup {[NoBody EXCEPT !.kind = "malformed"],
            [NoBody EXCEPT !.kind = "nonobject"]}

AnalyzeBodies == {b \in Bodies : b.question.kind = "missing"}

\* data.get('question')
QuestionOf(data) ==
    IF data.question.kind = "str" THEN PyStr(data.question.s)
    ELSE PyNone(<<>>)

\* data.get('patient_id', 'test_patient')
PatientIdOf(data) ==
    IF data.patient_id.has THEN data.patient_id.s ELSE DEFAULT_PATIENT

\* variant of QuestionMissing: `if question is None`
QuestionIsNone(question) == question.none

\* `if not question`
QuestionMissing(question) == Falsy(question)

ANALYSIS_PROMPT ==
    Lit("Please analyze this patient's health record and provide:\n1. Summary of their current health\n2. Any patterns, risks, or trends noticed\n3. Recommendations or lifestyle improvements\n4. Questions the patient should ask their doctor\n")

\* str(e) of what request.json or data.get raises on a body that is no object
HandlerExceptionText(body) ==
    IF body.kind = "malformed"
    THEN Lit("400 Bad Request: The browser (or proxy) sent a request that this server could not understand.")
    ELSE Lit("'list' object has no attribute 'get'")

\* variant of AfterGet: the dict after patient_records.setdefault(key, default)
AfterSetdefault(records, key, default) ==
    [k \in DOMAIN records \cup {key} |->
        IF k \in DOMAIN records THEN records[k] ELSE default]

\* the dict after patient_records.get(key, default): get inserts nothing
AfterGet(records, key, default) == records

HomePayload(records) ==
    [status |-> "healthy",
     message |-> "Ayu-Chain AI Agent is running (Powered by Gemini)!",
     version |-> "2.1.0",
     records_loaded |-> Cardinality(DOMAIN records) > 0]

\* variant of AskEnvelope: success tells whether the answer is an error text
AskEnvelopeFlagsErrors(question, answer, patient_id) ==
    [success |-> ~(answer # <<>> /\ SubSeq(answer[1].c, 1, 5) = "Error"),
     question |-> question, answer |-> answer, patient_id |-> patient_id]

AskEnvelope(question, answer, patient_id) ==
    [success |-> TRUE, question |-> question, answer |-> answer,
     patient_id |-> patient_id]

AnalyzeEnvelope(analysis, patient_id) ==
    [success |-> TRUE, analysis |-> analysis, patient_id |-> patient_id]

ErrorEnvelope(detail) == [success |-> FALSE, error |-> detail]

QUESTION_REQUIRED == [error |-> Lit("Question is required")]

IdleFrame == [pc |-> "idle", route |-> "", data |-> NoBody, question |-> <<>>,
              patient_id |-> "", health_records |-> <<>>,
              user_message |-> <<>>]

\* a response sent without calling get_ai_response
Direct(route, body, status, payload) ==
    [route |-> route, req |-> body, invoked |-> FALSE, posted |-> FALSE,
     question |-> <<>>, patient_id |-> "", user_message |-> <<>>,
     upstream |-> NoReply,
     result |-> <<>>, status |-> status, payload |-> payload]

\* the response sent after get_ai_response returned `result`
Completed(route, body, question, patient_id, user_message, posted, reply, result) ==
    [route |-> route, req |-> body, invoked |-> TRUE, posted |-> posted,
     question |-> question, patient_id |-> patient_id,
     user_message |-> user_message,
     upstream |-> reply, result |-> result, status |-> 200,
     payload |-> IF route = "/api/ask"
                 THEN AskEnvelope(question, result, patient_id)
                 ELSE AnalyzeEnvelope(result, patient_id)]

NoResponse == Direct("none", NoBody, 0, [none |-> TRUE])

\* the call get_ai_response(user_question, patient_id) up to requests.post:
\* without a key it returns at once, with a key the thread blocks in the post
CallGetAiResponse(t, route, body, user_question, patient_id) ==
    LET p == Prepare(patient_records, user_question, patient_id)
    IN  /\ patient_records' = AfterGet(patient_records, patient_id, NO_RECORDS)
        /\ IF KeyMissing(API_KEY)
           THEN /\ last_response' =
                     Completed(route, body, user_question, patient_id,
                               p.user_message, FALSE, NoReply,
                               MISSING_KEY_ERROR)
                /\ UNCHANGED threads
           ELSE /\ threads' =
                     [threads EXCEPT ![t] =
                         [pc |-> "awaiting", route |-> route, data |-> body,
                          question |-> user_question,
                          patient_id |-> patient_id,
                          health_records |-> p.health_records,
                          user_message |-> p.user_message]]
                /\ UNCHANGED last_response

\* GET /
Home ==
    /\ main_pc = "serving"
    /\ last_response' = Direct("/", NoBody, 200, HomePayload(patient_records))
    /\ UNCHANGED <<API_KEY, pdf_doc, patient_records, main_pc, text, page_idx,
                   threads>>

\* POST /api/ask, up to the response or to the blocking post
AskQuestion(t, body) ==
    /\ main_pc = "serving"
    /\ threads[t].pc = "idle"
    /\ IF body.kind # "object"
       THEN /\ last_response' =
                 Direct("/api/ask", body, 500,
                        ErrorEnvelope(HandlerExceptionText(body)))
            /\ UNCHANGED <<patient_records, threads>>
       ELSE IF QuestionMissing(QuestionOf(body))
       THEN /\ last_response' = Direct("/api/ask", body, 400, QUESTION_REQUIRED)
            /\ UNCHANGED <<patient_records, threads>>
       ELSE CallGetAiResponse(t, "/api/ask", body, QuestionOf(body).s,
                              PatientIdOf(body))
    /\ UNCHANGED <<API_KEY, pdf_doc, main_pc, text, page_idx>>

\* POST /api/analyze, up to the response or to the blocking post
AnalyzeHealth(t, body) ==
    /\ main_pc = "serving"
    /\ threads[t].pc = "idle"
    /\ IF body.kind # "object"
       THEN /\ last_response' =
                 Direct("/api/analyze", body, 500,
                        ErrorEnvelope(HandlerExceptionText(body)))
            /\ UNCHANGED <<patient_records, threads>>
       ELSE CallGetAiResponse(t, "/api/analyze", body, ANALYSIS_PROMPT,
                              PatientIdOf(body))
    /\ UNCHANGED <<API_KEY, pdf_doc, main_pc, text, page_idx>>

\* requests.post comes back in thread t: the rest of get_ai_response and of
\* the route that called it
UpstreamReply(t, reply, jsonErrorIsRequestException) ==
    /\ threads[t].pc = "awaiting"
    /\ last_response' =
          Completed(threads[t].route, threads[t].data, threads[t].question,
                    threads[t].patient_id, threads[t].user_message, TRUE,
                    reply, GeminiResult(reply, jsonErrorIsRequestException))
    /\ threads' = [threads EXCEPT ![t] = IdleFrame]
    /\ UNCHANGED <<API_KEY, pdf_doc, patient_records, main_pc, text, page_idx>>

(***************************************************************************)
(* The server: import of the module, then requests                         *)
(***************************************************************************)
\* .json() of a body that is not JSON raises requests' JSONDecodeError (a
\* RequestException) or a plain ValueError, depending on the installed library
JsonErrorKinds(reply) ==
    IF reply.kind = "response" /\ reply.body = "notjson" THEN BOOLEAN
    ELSE {TRUE}

Keys == {PyNone(""), PyStr(""), PyStr("AIza-test-key")}

EmptyRecords == [k \in {} |-> <<>>]

Init ==
    /\ API_KEY \in Keys
    /\ pdf_doc \in Documents
    /\ patient_records = EmptyRecords
    /\ main_pc = "open"
    /\ text = <<>>
    /\ page_idx = 0
    /\ threads = [t \in Threads |-> IdleFrame]
    /\ last_response = NoResponse

Next ==
    \/ OpenPdf
    \/ ExtractPage
    \/ StorePdf
    \/ LoadFailed
    \/ Home
    \/ \E t \in Threads, body \in Bodies : AskQuestion(t, body)
    \/ \E t \in Threads, body \in AnalyzeBodies : AnalyzeHealth(t, body)
    \/ \E t \in Threads, reply \in Replies :
          \E e \in JsonErrorKinds(reply) : UpstreamReply(t, reply, e)

Spec == Init /\ [][Next]_vars

(***************************************************************************)
(* Prompt assembly on records around the truncation threshold: the server  *)
(* after a successful import of a one-page document, taking requests that  *)
(* reach get_ai_response.                                                  *)
(***************************************************************************)
ProbeLengths == {0, 1} \cup ((MAX_RECORD_CHARS - 1)..(MAX_RECORD_CHARS + Overshoot))

ProbeTexts ==
    {Rep("a", k) : k \in ProbeLengths}
      \cup {Concat(Rep("a", k - 1), Rep("b", 1)) : k \in ProbeLengths \ {0, 1}}
      \cup {Concat(Rep("a", 1), Rep("b", k - 1)) : k \in ProbeLengths \ {0, 1}}
      \cup {Concat(Rep("a", MAX_RECORD_CHARS - 3), Lit("end of record")),
            Rep("abc", (MAX_RECORD_CHARS \div 3) + 1),
            Concat(Rep("ab", MAX_RECORD_CHARS \div 2), Rep("c", Overshoot))}

\* the bodies that make a route call get_ai_response
PromptBodies ==
    {b \in Bodies : /\ b.kind = "object"
                    /\ b.question.kind = "missing" \/ ~QuestionMissing(QuestionOf(b))}

InitPrompt ==
    /\ API_KEY = PyStr("AIza-test-key")
    /\ \E T \in ProbeTexts :
          /\ pdf_doc = [opens |-> TRUE, pages |-> <<[ok |-> TRUE, text |-> T]>>]
          /\ patient_records = StoreRecord(EmptyRecords, T)
    /\ main_pc = "serving"
    /\ text = <<>>
    /\ page_idx = 0
    /\ threads = [t \in Threads |-> IdleFrame]
    /\ last_response = NoResponse

NextPrompt ==
    \/ \E t \in Threads, body \in PromptBodies \ AnalyzeBodies :
          AskQuestion(t, body)
    \/ \E t \in Threads, body \in PromptBodies \cap AnalyzeBodies :
          AnalyzeHealth(t, body)

SpecPrompt == InitPrompt /\ [][NextPrompt]_vars

(***************************************************************************)
(* Reply parsing on every reply shape: the server after its import, with a *)
(* key configured, serving one request at a time.                          *)
(***************************************************************************)
InitReply ==
    /\ API_KEY = PyStr("AIza-test-key")
    /\ \/ /\ pdf_doc = [opens |-> FALSE, pages |-> <<>>]
          /\ patient_records = EmptyRecords
       \/ \E T \in PageTexts :
             /\ pdf_doc = [opens |-> TRUE, pages |-> <<[ok |-> TRUE, text |-> T]>>]
             /\ patient_records = StoreRecord(EmptyRecords, T)
    /\ main_pc = "serving"
    /\ text = <<>>
    /\ page_idx = 0
    /\ threads = [t \in Threads |-> IdleFrame]
    /\ last_response = NoResponse

NextReply ==
    \/ \E body \in PromptBodies \ AnalyzeBodies : AskQuestion("t1", body)
    \/ \E body \in PromptBodies \cap AnalyzeBodies : AnalyzeHealth("t1", body)
    \/ \E reply \in AllReplies :
          \E e \in JsonErrorKinds(reply) : UpstreamReply("t1", reply, e)

SpecReply == InitReply /\ [][NextReply]_vars

(***************************************************************************)
(* Helpers of the properties                                               *)
(***************************************************************************)
\* the characters of one piece from index k on, 0 < k < PieceLen(p)
PieceDrop(p, k) ==
    LET whole == k \div Len(p.c)
        rest  == k % Len(p.c)
        left  == p.n - whole - (IF rest > 0 THEN 1 ELSE 0)
    IN  (IF rest > 0 THEN <<[c |-> SubSeq(p.c, rest + 1, Len(p.c)), n |-> 1]>>
                     ELSE <<>>)
          \o (IF left > 0 THEN <<[c |-> p.c, n |-> left]>> ELSE <<>>)

\* s[k:]
RECURSIVE Drop(_, _)
Drop(s, k) ==
    IF k <= 0 \/ s = <<>> THEN s
    ELSE IF PieceLen(s[1]) <= k THEN Drop(Tail(s), k - PieceLen(s[1]))
    ELSE PieceDrop(s[1], k) \o Tail(s)

\* s[a:b]
Substr(s, a, b) == Slice(Drop(s, a), b - a)

\* needle occurs in hay, piece by piece
Contains(hay, needle) ==
    \E i \in 1..(Len(hay) - Len(needle) + 1) :
        SubSeq(hay, i, i + Len(needle) - 1) = needle

StartsWith(s, prefix) == Slice(s, Length(prefix)) = prefix

\* the text between the records header and the question header of a user
\* message built for `question`
EmbeddedRecord(user_message, question) ==
    Substr(user_message, Length(RECORDS_HEADER),
           Length(user_message) - Length(QUESTION_HEADER) - Length(question)
             - Length(MESSAGE_FOOTER))

\* user_message is the template around some record text and `question`
WellFormedMessage(user_message, question) ==
    /\ StartsWith(user_message, RECORDS_HEADER)
    /\ Drop(user_message,
            Length(user_message) - Length(QUESTION_HEADER) - Length(question)
              - Length(MESSAGE_FOOTER))
         = Format(<<QUESTION_HEADER, question, MESSAGE_FOOTER>>)

\* the concatenation of the page texts in page order
RECURSIVE JoinPages(_)
JoinPages(pages) ==
    IF pages = <<>> THEN <<>>
    ELSE Concat(pages[1].text, JoinPages(Tail(pages)))

\* opening the document or extracting one of its pages raises
DocFails(doc) == ~doc.opens \/ \E i \in 1..Len(doc.pages) : ~doc.pages[i].ok

Awaiting(t) == threads[t].pc = "awaiting"

(***************************************************************************)
(* Properties                                                              *)
(***************************************************************************)

\* C1: for a stored record text T, the record text embedded in the user
\* message is exactly T when len(T) <= 5000, and is exactly the first 5000
\* characters of T followed by the truncation note when len(T) > 5000.
\* Checked under SpecPrompt.
C1_RecordTruncation ==
    \A t \in Threads :
        Awaiting(t) /\ threads[t].patient_id \in DOMAIN patient_records =>
            LET T == patient_records[threads[t].patient_id]
                R == EmbeddedRecord(threads[t].user_message,
                                    threads[t].question)
            IN  /\ WellFormedMessage(threads[t].user_message,
                                     threads[t].question)
                /\ IF Length(T) <= 5000
                   THEN R = T
                   ELSE /\ Length(R) = 5000 + Length(TRUNCATION_NOTE)
                        /\ \A i \in 0..4999 : CharAt(R, i) = CharAt(T, i)
                        /\ Drop(R, 5000) = TRUNCATION_NOTE

\* a prompt was built from a stored record of more than 5000 characters
C1_Witness ==
    /\ Awaiting("t1")
    /\ threads["t1"].patient_id = DEFAULT_PATIENT
    /\ Length(patient_records[DEFAULT_PATIENT]) > 5000
    /\ Contains(threads["t1"].user_message, TRUNCATION_NOTE)

\* C2: without an API key (unset or empty) every call of get_ai_response
\* returns the missing-key error string and no HTTP request is made.
C2_NoKeyNoRequest ==
    API_KEY.none \/ API_KEY.s = "" =>
        /\ \A t \in Threads : ~Awaiting(t)
        /\ last_response.invoked =>
              /\ ~last_response.posted
              /\ last_response.upstream = NoReply
              /\ last_response.result =
                    Lit("Error: Missing GEMINI_API_KEY in your .env file.")

C2_Witness ==
    /\ ~API_KEY.none
    /\ API_KEY.s = ""
    /\ last_response.invoked
    /\ last_response.patient_id = UNKNOWN_PATIENT
    /\ ~last_response.posted

\* C3: an upstream answer with status 400, no candidates and error.message M
\* makes get_ai_response return the API-reported error string: prefixed with
\* the status code 400, including M and the raw body, and not the
\* transport-failure string.
C3_Status400Reported ==
    /\ last_response.invoked
    /\ last_response.upstream.kind = "response"
    /\ last_response.upstream.status = 400
    /\ last_response.upstream.body = "object"
    /\ ~last_response.upstream.data.hasCandidates
    /\ last_response.upstream.data.error.has
    /\ ~last_response.upstream.data.error.message.none
    => /\ StartsWith(last_response.result, Lit("Gemini API Error (400): "))
       /\ Contains(last_response.result,
                   last_response.upstream.data.error.message.s)
       /\ Contains(last_response.result, Dumps(last_response.upstream.data))
       /\ ~StartsWith(last_response.result,
                      Lit("Error connecting to Gemini API: "))

\* C4: a request with a JSON object as body (and a non-empty question for
\* /api/ask) is answered with HTTP 200, success = true and the string that
\* get_ai_response returned in the answer / analysis field, whatever the
\* outcome of the inference.
C4_InferenceErrorsAre200 ==
    /\ last_response.route \in {"/api/ask", "/api/analyze"}
    /\ last_response.req.kind = "object"
    /\ last_response.route = "/api/ask" =>
          /\ last_response.req.question.kind = "str"
          /\ last_response.req.question.s # <<>>
    => /\ last_response.invoked
       /\ last_response.status = 200
       /\ last_response.payload.success = TRUE
       /\ IF last_response.route = "/api/ask"
          THEN /\ DOMAIN last_response.payload =
                     {"success", "question", "answer", "patient_id"}
               /\ last_response.payload.answer = last_response.result
          ELSE /\ DOMAIN last_response.payload =
                     {"success", "analysis", "patient_id"}
               /\ last_response.payload.analysis = last_response.result

C4_Witness ==
    /\ last_response.route = "/api/ask"
    /\ last_response.upstream.kind = "exception"
    /\ last_response.status = 200
    /\ StartsWith(last_response.payload.answer,
                  Lit("Error connecting to Gemini API: "))

\* C5: POST /api/ask with a JSON object whose question is missing, null or
\* empty is answered with HTTP 400 and exactly {"error": "Question is
\* required"}, without a call of get_ai_response and without an HTTP request.
C5_QuestionRequired ==
    /\ last_response.route = "/api/ask"
    /\ last_response.req.kind = "object"
    /\ \/ last_response.req.question.kind \in {"missing", "null"}
       \/ last_response.req.question.s = <<>>
    => /\ last_response.status = 400
       /\ last_response.payload = [error |-> Lit("Question is required")]
       /\ ~last_response.invoked
       /\ ~last_response.posted

C5_Witness ==
    /\ last_response.route = "/api/ask"
    /\ last_response.req.kind = "object"
    /\ last_response.req.question.kind = "str"
    /\ last_response.req.question.s = <<>>
    /\ last_response.req.patient_id.has
    /\ last_response.status = 400

\* C6: with a key and a 2xx reply whose body has
\* candidates[0].content.parts[0].text = X, get_ai_response returns exactly X,
\* whatever the other fields of the body.  Checked under SpecReply.
C6_TextReturnedVerbatim ==
    /\ last_response.invoked
    /\ last_response.upstream.kind = "response"
    /\ last_response.upstream.status \in 200..299
    /\ last_response.upstream.body = "object"
    /\ last_response.upstream.data.hasCandidates
    /\ last_response.upstream.data.candidates # <<>>
    /\ last_response.upstream.data.candidates[1].content.kind = "dict"
    /\ last_response.upstream.data.candidates[1].content.hasParts
    /\ last_response.upstream.data.candidates[1].content.parts # <<>>
    /\ last_response.upstream.data.candidates[1].content.parts[1].isDict
    /\ last_response.upstream.data.candidates[1].content.parts[1].hasText
    => last_response.result =
          last_response.upstream.data.candidates[1].content.parts[1].text

C6_Witness ==
    /\ last_response.invoked
    /\ last_response.upstream.status = 200
    /\ last_response.upstream.data.error.has
    /\ last_response.upstream.data.candidates # <<>>
    /\ ~last_response.upstream.data.candidates[1].finishReason.none
    /\ last_response.result = ANSWER_TEXT

\* the first candidate of a body has no usable text part: content missing,
\* parts missing or empty, or parts[0] without a text field
NoUsableText(data) ==
    /\ data.hasCandidates
    /\ data.candidates # <<>>
    /\ \/ data.candidates[1].content.kind = "missing"
       \/ /\ data.candidates[1].content.kind = "dict"
          /\ \/ ~data.candidates[1].content.hasParts
             \/ data.candidates[1].content.parts = <<>>
             \/ ~data.candidates[1].content.parts[1].isDict
             \/ ~data.candidates[1].content.parts[1].hasText

\* C7: with a key and a 2xx reply whose first candidate has no usable text
\* part, get_ai_response returns an error string with the candidate's
\* finishReason, or "Unknown" when it is absent, and the raw body; it never
\* returns the text of a later part or candidate.  Checked under SpecReply.
C7_NoTextReportsFinishReason ==
    /\ last_response.invoked
    /\ last_response.upstream.kind = "response"
    /\ last_response.upstream.status \in 200..299
    /\ last_response.upstream.body = "object"
    /\ NoUsableText(last_response.upstream.data)
    => LET candidate == last_response.upstream.data.candidates[1]
       IN  /\ StartsWith(last_response.result,
                         Lit("No valid text found in Gemini response."
                               \o " Finish reason: "))
           /\ Contains(last_response.result,
                       IF candidate.finishReason.none THEN Lit("Unknown")
                       ELSE Lit(candidate.finishReason.s))
           /\ Contains(last_response.result,
                       Dumps(last_response.upstream.data))
           /\ last_response.result # LATER_TEXT

C7_Witness ==
    /\ last_response.invoked
    /\ NoUsableText(last_response.upstream.data)
    /\ Len(last_response.upstream.data.candidates) = 2
    /\ last_response.upstream.data.candidates[1].finishReason.none
    /\ Contains(last_response.result, Lit("Unknown"))

\* C8: for a patient identifier without an entry in the record store the
\* lookup yields the sentinel "No health records found.", which is the record
\* text of the prompt, and the request goes on to the inference call.
C8_UnknownPatientSentinel ==
    /\ \A t \in Threads :
          Awaiting(t) /\ threads[t].patient_id \notin DOMAIN patient_records =>
              /\ threads[t].health_records = Lit("No health records found.")
              /\ WellFormedMessage(threads[t].user_message,
                                   threads[t].question)
              /\ EmbeddedRecord(threads[t].user_message, threads[t].question)
                    = Lit("No health records found.")
    /\ /\ last_response.route \in {"/api/ask", "/api/analyze"}
       /\ last_response.req.kind = "object"
       /\ last_response.route = "/api/ask" =>
             last_response.req.question.kind = "str"
               /\ last_response.req.question.s # <<>>
       /\ PatientIdOf(last_response.req) \notin DOMAIN patient_records
       => /\ last_response.invoked
          /\ last_response.status = 200
          /\ WellFormedMessage(last_response.user_message,
                               last_response.question)
          /\ EmbeddedRecord(last_response.user_message, last_response.question)
                = Lit("No health records found.")

C8_Witness ==
    /\ DEFAULT_PATIENT \notin DOMAIN patient_records
    /\ Awaiting("t1")
    /\ threads["t1"].patient_id = DEFAULT_PATIENT
    /\ last_response.posted
    /\ last_response.patient_id = UNKNOWN_PATIENT

StartupStep == OpenPdf \/ ExtractPage \/ StorePdf \/ LoadFailed

\* C9: a failure of the startup ingestion, at the opening of the document or
\* at any page, is swallowed: nothing is stored for test_patient, the server
\* starts, and GET / reports records_loaded = false.  A successful ingestion
\* stores the concatenation of the page texts in page order.
C9_StartupIngestion ==
    /\ main_pc # "serving" =>
          /\ patient_records = EmptyRecords
          /\ ENABLED StartupStep
    /\ main_pc = "serving" =>
          IF DocFails(pdf_doc)
          THEN /\ DEFAULT_PATIENT \notin DOMAIN patient_records
               /\ last_response.route = "/" =>
                     last_response.payload.records_loaded = FALSE
          ELSE /\ DOMAIN patient_records = {DEFAULT_PATIENT}
               /\ patient_records[DEFAULT_PATIENT] = JoinPages(pdf_doc.pages)

C9_Witness ==
    /\ main_pc = "serving"
    /\ Len(pdf_doc.pages) = 2
    /\ pdf_doc.pages[1].ok
    /\ pdf_doc.pages[1].text # <<>>
    /\ ~pdf_doc.pages[2].ok
    /\ last_response.route = "/"
    /\ last_response.status = 200
    /\ ~last_response.payload.records_loaded

\* C10: once the server serves requests no request changes the record store:
\* it keeps holding no entry or the single entry of test_patient.
C10_StoreReadOnly ==
    [][main_pc = "serving" =>
          /\ patient_records' = patient_records
          /\ DOMAIN patient_records' \subseteq {DEFAULT_PATIENT}]_vars

C10_Witness ==
    /\ main_pc = "serving"
    /\ Awaiting("t2")
    /\ threads["t2"].patient_id = UNKNOWN_PATIENT
    /\ last_response.posted
    /\ last_response.patient_id = UNKNOWN_PATIENT
    /\ UNKNOWN_PATIENT \notin DOMAIN patient_records

====
